---- MODULE Spec2Model ----
(***************************************************************************)
(* Bi-objective (#matches, #gaps) pairwise alignment without traceback:    *)
(* the dynamic program of Gaps/Matches/No_traceback/DP/main.c over the     *)
(* rolling tables Q (two lines), T (two lines) and S (one line).           *)
(*                                                                         *)
(* main.c includes pareto_set.h, whose functions append_node,              *)
(* pareto_merge2 and pareto_merge3 are not part of the sources at hand;    *)
(* they are modelled from the design document (sections 3 and 4.1).        *)
(***************************************************************************)
EXTENDS Integers, Sequences, FiniteSets, TLC

VARIABLES seq1, seq2,   \* the two read sequences (main.c:62-63)
          Q, S, T,      \* the DP tables (main.c:66-70); a cell is its scores[0..num-1]
          i, j,         \* line and column of align() (main.c:190)
          pc,           \* position of the program
          writes,       \* history: how often each cell was written in the current line
          gen,          \* history: the line whose scores a cell holds, -1 when empty
          mt            \* state of the stand-alone merge runs (SpecMerge)

vars == <<seq1, seq2, Q, S, T, i, j, pc, writes, gen, mt>>

(* ---------------------------- bounds ---------------------------------- *)
MaxLen == 4
Alphabet == {"A", "C"}
\* the stand-alone merge runs: scores 0..MaxScore, frontiers of up to MaxFront points
MaxScore == 3
MaxFront == 4

(* ---------------------------- constants ------------------------------- *)
INT_MAX == 2147483647
INT_MIN == (-INT_MAX) - 1
MAX_STATES == 3000

RECURSIVE SeqsOfLen(_)
SeqsOfLen(n) ==
    IF n = 0 THEN {<<>>}
    ELSE {Append(s, c) : s \in SeqsOfLen(n - 1), c \in Alphabet}

Sequences == UNION {SeqsOfLen(n) : n \in 0..MaxLen}

M == Len(seq1)
N == Len(seq2)

Min(a, b) == IF a <= b THEN a ELSE b

(* ---------------------- Pareto set (pareto_set.h) ---------------------- *)
VMG(m, g) == [matches |-> m, gaps |-> g]

\* the points a cell holds, as a set
Points(set) == {set[k] : k \in 1..Len(set)}

append_node(set, m, g) == Append(set, VMG(m, g))

dominates(p, q) ==
    /\ p.matches >= q.matches
    /\ p.gaps <= q.gaps
    /\ (p.matches > q.matches \/ p.gaps < q.gaps)

\* insert that keeps an equal point twice
insert_nodedup(set, p) ==
    IF \E k \in 1..Len(set) : dominates(set[k], p)
    THEN set
    ELSE Append(SelectSeq(set, LAMBDA q : ~dominates(p, q)), p)

insert(set, p) ==
    IF \E k \in 1..Len(set) : set[k] = p \/ dominates(set[k], p)
    THEN set
    ELSE Append(SelectSeq(set, LAMBDA q : ~dominates(p, q)), p)

RECURSIVE insert_all(_, _)
insert_all(set, ps) ==
    IF ps = <<>> THEN set
    ELSE insert_all(insert(set, Head(ps)), Tail(ps))

\* gaps + 1 on a 32-bit int; INT_MAX + 1 is a signed overflow, which wraps
\* here (the build that traps instead is the action Trap)
Inc32(g) == IF g = INT_MAX THEN INT_MIN ELSE g + 1

gap_extension(p) == VMG(p.matches, Inc32(p.gaps))
diagonal_extension(p, match) == VMG(p.matches + (IF match THEN 1 ELSE 0), p.gaps)
identity(p) == p

transform(tr, p) ==
    CASE tr = "gap"      -> gap_extension(p)
      [] tr = "match"    -> diagonal_extension(p, TRUE)
      [] tr = "mismatch" -> diagonal_extension(p, FALSE)
      [] OTHER           -> identity(p)

Transformed(tr, set) == [k \in 1..Len(set) |-> transform(tr, set[k])]

\* a gap extension of this cell overflows
Overflows(set) == \E k \in 1..Len(set) : set[k].gaps = INT_MAX

RECURSIVE Concat(_)
Concat(sets) == IF sets = <<>> THEN <<>> ELSE Head(sets) \o Concat(Tail(sets))

\* every point of every source, transformed, is inserted into the target
mergeTransform(res, sources, tr) ==
    insert_all(res, Concat([k \in 1..Len(sources) |-> Transformed(tr, sources[k])]))

\* gap extension of both sources
pareto_merge2(res, set1, set2) == mergeTransform(res, <<set1, set2>>, "gap")

\* union of set1, set2 and the diagonal extension of set3
pareto_merge3(res, set1, set2, set3, match) ==
    mergeTransform(mergeTransform(res, <<set1, set2>>, "identity"),
                   <<set3>>, IF match THEN "match" ELSE "mismatch")

(* --------------------------- main.c ------------------------------------ *)
\* init_dynamic_tables that writes the T base case into Q
init_dynamic_tables_TintoQ(n) ==
    [ Q |-> [r \in 0..1 |-> [k \in 0..n |->
                IF r = 0
                THEN IF k = 0 THEN append_node(<<>>, 0, 0)
                     ELSE append_node(append_node(<<>>, 0, INT_MAX), 0, 1)
                ELSE <<>>]],
      T |-> [r \in 0..1 |-> [k \in 0..n |-> <<>>]],
      S |-> [k \in 0..n |-> IF k = 0 THEN append_node(<<>>, 0, INT_MAX) ELSE <<>>] ]

\* init_dynamic_tables whose line-0 base case counts the columns
init_dynamic_tables_columns(n) ==
    [ Q |-> [r \in 0..1 |-> [k \in 0..n |->
                IF r = 0 THEN append_node(<<>>, 0, k) ELSE <<>>]],
      T |-> [r \in 0..1 |-> [k \in 0..n |->
                IF r = 0 /\ k >= 1 THEN append_node(<<>>, 0, INT_MAX) ELSE <<>>]],
      S |-> [k \in 0..n |-> IF k = 0 THEN append_node(<<>>, 0, INT_MAX) ELSE <<>>] ]

\* the tables after allocation (every num = 0) and the base cases
init_dynamic_tables(n) ==
    [ Q |-> [r \in 0..1 |-> [k \in 0..n |->
                IF r = 0
                THEN IF k = 0 THEN append_node(<<>>, 0, 0)
                     ELSE append_node(<<>>, 0, 1)
                ELSE <<>>]],
      T |-> [r \in 0..1 |-> [k \in 0..n |->
                IF r = 0 /\ k >= 1 THEN append_node(<<>>, 0, INT_MAX) ELSE <<>>]],
      S |-> [k \in 0..n |-> IF k = 0 THEN append_node(<<>>, 0, INT_MAX) ELSE <<>>] ]

prev_line(ii) == IF ii % 2 = 0 THEN 1 ELSE 0
curr_line(ii) == ii % 2

\* the first-column base case that counts the lines
first_column_lines(q, ii) ==
    [q EXCEPT ![curr_line(ii)][0] = append_node(@, 0, ii)]

\* main.c:201
first_column(q, ii) ==
    [q EXCEPT ![curr_line(ii)][0] = append_node(@, 0, 1)]

\* main.c:206
is_match(a, b, ii, jj) == a[ii] = b[jj]

\* main.c:208
merge_S(s, q, ii, jj) ==
    [s EXCEPT ![jj] = pareto_merge2(@, s[jj - 1], q[curr_line(ii)][jj - 1])]

\* main.c:209
merge_T(t, q, ii, jj) ==
    [t EXCEPT ![curr_line(ii)][jj] =
        pareto_merge2(@, t[prev_line(ii)][jj], q[prev_line(ii)][jj])]

\* main.c:210
merge_Q(q, s, t, ii, jj, match) ==
    [q EXCEPT ![curr_line(ii)][jj] =
        pareto_merge3(@, s[jj], t[curr_line(ii)][jj], q[prev_line(ii)][jj - 1], match)]

\* reset of Q that starts at column 1, like the reset of S
reset_Q_from1(q, ii, n) ==
    [q EXCEPT ![prev_line(ii)] = [k \in 0..n |-> IF k = 0 THEN @[k] ELSE <<>>]]

\* main.c:214-215
reset_Q(q, ii, n) ==
    [q EXCEPT ![prev_line(ii)] = [k \in 0..n |-> <<>>]]

\* a reset that forgets T
reset_T_none(t, ii, n) == t

\* main.c:214,216
reset_T(t, ii, n) ==
    [t EXCEPT ![prev_line(ii)] = [k \in 0..n |-> <<>>]]

\* a reset of S that starts at column 0, like the reset of Q and T
reset_S_from0(s, n) == [k \in 0..n |-> <<>>]

\* main.c:219-221
reset_S(s, n) ==
    [k \in 0..n |-> IF k >= 1 THEN <<>> ELSE s[k]]

\* main.c:104-106: the cell main prints
result_cell(q, m, n) == q[m % 2][n]

(* ------------------ the whole run, as a function ----------------------- *)
\* align() on tables g, from line ii and column jj on; the tables at return
RECURSIVE align_from(_, _, _, _, _)
align_from(g, a, b, ii, jj) ==
    IF ii > Len(a) THEN g
    ELSE IF jj = 0
         THEN align_from([g EXCEPT !.Q = first_column(g.Q, ii)], a, b, ii, 1)
    ELSE IF jj > Len(b)
         THEN align_from([Q |-> reset_Q(g.Q, ii, Len(b)),
                          T |-> reset_T(g.T, ii, Len(b)),
                          S |-> reset_S(g.S, Len(b))], a, b, ii + 1, 0)
    ELSE LET s1 == merge_S(g.S, g.Q, ii, jj)
             t1 == merge_T(g.T, g.Q, ii, jj)
             q1 == merge_Q(g.Q, s1, t1, ii, jj, is_match(a, b, ii, jj))
         IN  align_from([Q |-> q1, T |-> t1, S |-> s1], a, b, ii, jj + 1)

\* main.c:97-106: the scores main prints for sequences a and b
final_frontier(a, b) ==
    Points(result_cell(align_from(init_dynamic_tables(Len(b)), a, b, 1, 0).Q,
                       Len(a), Len(b)))

(* --------------------------- the program ------------------------------- *)
NoWrites(n) == [Q |-> [k \in 0..n |-> 0], S |-> [k \in 0..n |-> 0],
                T |-> [k \in 0..n |-> 0]]

MtIdle == [st |-> "idle", F |-> <<>>, tr |-> "gap", once |-> <<>>, twice |-> <<>>]

Init ==
    /\ seq1 \in Sequences
    /\ seq2 \in Sequences
    /\ Q = [r \in 0..1 |-> [k \in 0..Len(seq2) |-> <<>>]]
    /\ T = [r \in 0..1 |-> [k \in 0..Len(seq2) |-> <<>>]]
    /\ S = [k \in 0..Len(seq2) |-> <<>>]
    /\ i = 0
    /\ j = 0
    /\ pc = "init"
    /\ writes = NoWrites(Len(seq2))
    /\ gen = [Q |-> [r \in 0..1 |-> [k \in 0..Len(seq2) |-> -1]],
              T |-> [r \in 0..1 |-> [k \in 0..Len(seq2) |-> -1]],
              S |-> [k \in 0..Len(seq2) |-> -1]]
    /\ mt = MtIdle

\* the generation of every cell, read off the tables: a cell that went from
\* empty to non-empty, or changed, holds line ii; an emptied cell holds none
Gen2(old, new, g, ii) ==
    [r \in 0..1 |-> [k \in 0..N |->
        IF new[r][k] = <<>> THEN -1
        ELSE IF new[r][k] # old[r][k] THEN ii ELSE g[r][k]]]

Gen1(old, new, g, ii) ==
    [k \in 0..N |->
        IF new[k] = <<>> THEN -1
        ELSE IF new[k] # old[k] THEN ii ELSE g[k]]

\* main.c:99
InitTables ==
    /\ pc = "init"
    /\ LET g == init_dynamic_tables(N)
       IN  /\ Q' = g.Q
           /\ T' = g.T
           /\ S' = g.S
           /\ gen' = [Q |-> Gen2(Q, g.Q, gen.Q, 0), T |-> Gen2(T, g.T, gen.T, 0),
                      S |-> Gen1(S, g.S, gen.S, 0)]
    /\ i' = 1
    /\ pc' = "line"
    /\ UNCHANGED <<seq1, seq2, j, writes, mt>>

\* main.c:194-201: the next line starts with its first-column base case
FirstColumn ==
    /\ pc = "line"
    /\ i <= M
    /\ Q' = first_column(Q, i)
    /\ writes' = [NoWrites(N) EXCEPT !.Q[0] = 1]
    /\ gen' = [gen EXCEPT !.Q[curr_line(i)][0] = i]
    /\ j' = 1
    /\ pc' = IF 1 <= N THEN "S" ELSE "reset"
    /\ UNCHANGED <<seq1, seq2, S, T, i, mt>>

\* main.c:208
MergeS ==
    /\ pc = "S"
    /\ S' = merge_S(S, Q, i, j)
    /\ writes' = [writes EXCEPT !.S[j] = @ + 1]
    /\ gen' = [gen EXCEPT !.S[j] = i]
    /\ pc' = "T"
    /\ UNCHANGED <<seq1, seq2, Q, T, i, j, mt>>

\* main.c:209
MergeT ==
    /\ pc = "T"
    /\ T' = merge_T(T, Q, i, j)
    /\ writes' = [writes EXCEPT !.T[j] = @ + 1]
    /\ gen' = [gen EXCEPT !.T[curr_line(i)][j] = i]
    /\ pc' = "Q"
    /\ UNCHANGED <<seq1, seq2, Q, S, i, j, mt>>

\* main.c:210, and the step of the column loop
MergeQ ==
    /\ pc = "Q"
    /\ Q' = merge_Q(Q, S, T, i, j, is_match(seq1, seq2, i, j))
    /\ writes' = [writes EXCEPT !.Q[j] = @ + 1]
    /\ gen' = [gen EXCEPT !.Q[curr_line(i)][j] = i]
    /\ j' = j + 1
    /\ pc' = IF j + 1 <= N THEN "S" ELSE "reset"
    /\ UNCHANGED <<seq1, seq2, S, T, i, mt>>

\* a build that traps on signed overflow stops at the gap extension of INT_MAX
Trap ==
    /\ \/ pc = "S" /\ (Overflows(S[j - 1]) \/ Overflows(Q[curr_line(i)][j - 1]))
       \/ pc = "T" /\ (Overflows(T[prev_line(i)][j]) \/ Overflows(Q[prev_line(i)][j]))
    /\ pc' = "abort"
    /\ UNCHANGED <<seq1, seq2, Q, S, T, i, j, writes, gen, mt>>

\* main.c:213-221, and the step of the line loop
Reset ==
    /\ pc = "reset"
    /\ Q' = reset_Q(Q, i, N)
    /\ T' = reset_T(T, i, N)
    /\ S' = reset_S(S, N)
    /\ gen' = [Q |-> Gen2(Q, Q', gen.Q, i), T |-> Gen2(T, T', gen.T, i),
               S |-> Gen1(S, S', gen.S, i)]
    /\ i' = i + 1
    /\ pc' = "line"
    /\ UNCHANGED <<seq1, seq2, j, writes, mt>>

\* main.c:194: the line loop ends; main prints Q[M % 2][N]
Finish ==
    /\ pc = "line"
    /\ i > M
    /\ pc' = "done"
    /\ UNCHANGED <<seq1, seq2, Q, S, T, i, j, writes, gen, mt>>

Next ==
    \/ InitTables
    \/ FirstColumn
    \/ MergeS
    \/ MergeT
    \/ MergeQ
    \/ Trap
    \/ Reset
    \/ Finish

Spec == Init /\ [][Next]_vars

(* ------------------------ exhaustive enumeration ----------------------- *)
\* the (matches, gaps) vectors of all global alignments of a[1..ii] and
\* b[1..jj]: matches counts aligned identical characters, gaps counts gap symbols
RECURSIVE alignment_scores(_, _, _, _)
alignment_scores(a, b, ii, jj) ==
    IF ii = 0 /\ jj = 0 THEN {VMG(0, 0)}
    ELSE (IF ii > 0 /\ jj > 0
          THEN {VMG(p.matches + (IF a[ii] = b[jj] THEN 1 ELSE 0), p.gaps) :
                    p \in alignment_scores(a, b, ii - 1, jj - 1)}
          ELSE {})
         \cup (IF ii > 0
               THEN {VMG(p.matches, p.gaps + 1) : p \in alignment_scores(a, b, ii - 1, jj)}
               ELSE {})
         \cup (IF jj > 0
               THEN {VMG(p.matches, p.gaps + 1) : p \in alignment_scores(a, b, ii, jj - 1)}
               ELSE {})

NonDominated(ps) == {p \in ps : ~\E q \in ps : dominates(q, p)}

(* ------------------------------ claims --------------------------------- *)
\* the line of the DP table that line r of the rolling tables holds
line_of(r) == IF r = i % 2 THEN i ELSE i - 1

Cells == {Q[r][k] : r \in 0..1, k \in 0..N} \cup {T[r][k] : r \in 0..1, k \in 0..N}
         \cup {S[k] : k \in 0..N}

\* C1: the frontier main prints, Q[M % 2][N], is the set of non-dominated
\* (matches, gap symbols) vectors over all global alignments of seq1 and seq2.
C1_EngineEqualsBruteForce ==
    pc = "done" =>
        Points(result_cell(Q, M, N)) = NonDominated(alignment_scores(seq1, seq2, M, N))

\* C2: in every state, in every cell of Q, S and T, no point dominates
\* another and no point occurs twice.
C2_DominanceInvariant ==
    \A c \in Cells : \A a, b \in 1..Len(c) :
        a # b => (c[a] # c[b] /\ ~dominates(c[a], c[b]))

C2_Witness ==
    pc = "done" /\ Len(result_cell(Q, M, N)) >= 2

\* C3: every point (m, g) of Q[i][j], while line i is in the rolling table,
\* has 0 <= m <= min(i, j) and 0 <= g <= i + j.
C3_ScoreBounds ==
    \A r \in 0..1, k \in 0..N : \A p \in Points(Q[r][k]) :
        /\ 0 <= p.matches /\ p.matches <= Min(line_of(r), k)
        /\ 0 <= p.gaps /\ p.gaps <= line_of(r) + k

\* C4: no frontier of Q ever holds the sentinel (gaps = INT_MAX) or the point
\* a gap extension makes of it (gaps + 1 on a 32-bit int).
C4_SentinelNeverInQ ==
    \A r \in 0..1, k \in 0..N : \A p \in Points(Q[r][k]) :
        p.gaps # INT_MAX /\ p.gaps # Inc32(INT_MAX)

AfterInit == pc = "line" /\ i = 1

InLine == pc \in {"S", "T", "Q", "reset"}

C7_Symmetry ==
    pc = "done" => Points(result_cell(Q, M, N)) = final_frontier(seq2, seq1)

C7_Witness ==
    pc = "done" /\ M = 1 /\ N = 3 /\ Len(result_cell(Q, M, N)) >= 2

\* C9, writes: a cell about to be written in line i is empty and was not
\* written in line i before.
C9_EmptyBeforeWrite ==
    /\ (pc = "line" /\ i <= M) => Q[curr_line(i)][0] = <<>>
    /\ pc = "S" => (S[j] = <<>> /\ writes.S[j] = 0)
    /\ pc = "T" => (T[curr_line(i)][j] = <<>> /\ writes.T[j] = 0)
    /\ pc = "Q" => (Q[curr_line(i)][j] = <<>> /\ writes.Q[j] = 0)

\* C9, once: when the columns of line i are done, each of its cells was
\* written exactly once; before, no cell was written more than once.
C9_WrittenOnce ==
    /\ \A k \in 0..N : writes.Q[k] <= 1 /\ writes.S[k] <= 1 /\ writes.T[k] <= 1
    /\ pc = "reset" =>
          /\ writes.Q[0] = 1
          /\ \A k \in 1..N : writes.Q[k] = 1 /\ writes.S[k] = 1 /\ writes.T[k] = 1

\* C9, clearing: while the columns of line i are computed, every cell of
\* line i - 1 still holds the scores of line i - 1 (so it is cleared only after).
C9_PreviousLineKept ==
    pc \in {"S", "T", "Q"} =>
        \A k \in 0..N :
            /\ gen.Q[prev_line(i)][k] = i - 1
            /\ k >= 1 => gen.T[prev_line(i)][k] = i - 1

\* C9, reads: the cells a merge of line i reads in the current line hold
\* line i, and column 0 of S holds its base case.
C9_ReadsCurrent ==
    /\ pc = "S" => /\ S[j - 1] # <<>>
                   /\ j - 1 >= 1 => gen.S[j - 1] = i
                   /\ gen.Q[curr_line(i)][j - 1] = i
    /\ pc = "Q" => gen.S[j] = i /\ gen.T[curr_line(i)][j] = i

\* C9: every cell written in line i is empty right before that write and is
\* written exactly once in line i; the cells of line i - 1 are cleared only
\* after every column of line i is computed; no merge reads a cleared cell or
\* scores of line i - 2.
C9_Lifecycle ==
    C9_EmptyBeforeWrite /\ C9_WrittenOnce /\ C9_PreviousLineKept /\ C9_ReadsCurrent

C9_Witness == pc = "reset" /\ i = 3 /\ N >= 2

\* C10: the frontier of any Q, S or T cell for prefix position (i, j) holds at
\* most min(i, j) + 1 points, so with min(M, N) + 1 <= MAX_STATES no cell ever
\* holds more than MAX_STATES points.
C10_CapacityBound ==
    /\ \A r \in 0..1, k \in 0..N :
          /\ Len(Q[r][k]) <= Min(line_of(r), k) + 1
          /\ Len(T[r][k]) <= Min(line_of(r), k) + 1
    /\ \A k \in 0..N : Len(S[k]) <= Min(i, k) + 1
    /\ Min(M, N) + 1 <= MAX_STATES => \A c \in Cells : Len(c) <= MAX_STATES

C10_Witness ==
    \E k \in 1..N : pc = "reset" /\ Len(Q[curr_line(i)][k]) = Min(i, k) + 1
                    /\ Min(i, k) + 1 >= 3

(* -------------------- the merge primitive on its own ------------------- *)
PointPool == {VMG(m, g) : m \in 0..MaxScore, g \in 0..MaxScore} \cup {VMG(0, INT_MAX)}

IsFrontier(c) ==
    \A a, b \in 1..Len(c) : a # b => (c[a] # c[b] /\ ~dominates(c[a], c[b]))

\* the frontiers of n points that satisfy the dominance invariant, in every order
RECURSIVE FrontiersOfLen(_)
FrontiersOfLen(n) ==
    IF n = 0 THEN {<<>>}
    ELSE {c \in {Append(s, p) : s \in FrontiersOfLen(n - 1), p \in PointPool} :
             IsFrontier(c)}

Frontiers == UNION {FrontiersOfLen(n) : n \in 0..MaxFront}

Transforms == {"gap", "match", "mismatch", "identity"}

InitMerge ==
    /\ seq1 = <<>>
    /\ seq2 = <<>>
    /\ Q = [r \in 0..1 |-> [k \in 0..0 |-> <<>>]]
    /\ T = [r \in 0..1 |-> [k \in 0..0 |-> <<>>]]
    /\ S = [k \in 0..0 |-> <<>>]
    /\ i = 0
    /\ j = 0
    /\ pc = "merge"
    /\ writes = NoWrites(0)
    /\ gen = [Q |-> [r \in 0..1 |-> [k \in 0..0 |-> -1]],
              T |-> [r \in 0..1 |-> [k \in 0..0 |-> -1]],
              S |-> [k \in 0..0 |-> -1]]
    /\ mt \in {[st |-> "ready", F |-> f, tr |-> t, once |-> <<>>, twice |-> <<>>] :
                  f \in Frontiers, t \in Transforms}

\* mergeTransform into an empty target with the single source F
MergeOnce ==
    /\ mt.st = "ready"
    /\ mt' = [mt EXCEPT !.st = "once", !.once = mergeTransform(<<>>, <<mt.F>>, mt.tr)]
    /\ UNCHANGED <<seq1, seq2, Q, S, T, i, j, pc, writes, gen>>

\* mergeTransform into an empty target with the sources (F, F)
MergeTwice ==
    /\ mt.st = "once"
    /\ mt' = [mt EXCEPT !.st = "done",
                        !.twice = mergeTransform(<<>>, <<mt.F, mt.F>>, mt.tr)]
    /\ UNCHANGED <<seq1, seq2, Q, S, T, i, j, pc, writes, gen>>

\* a build that traps on signed overflow stops at the gap extension of INT_MAX
MergeTrap ==
    /\ mt.st \in {"ready", "once"}
    /\ mt.tr = "gap"
    /\ Overflows(mt.F)
    /\ mt' = [mt EXCEPT !.st = "abort"]
    /\ UNCHANGED <<seq1, seq2, Q, S, T, i, j, pc, writes, gen>>

NextMerge == MergeOnce \/ MergeTwice \/ MergeTrap

SpecMerge == InitMerge /\ [][NextMerge]_vars

\* C8: for a frontier F that satisfies the dominance invariant and any of the
\* transforms, merging (F, F) into an empty target leaves the same points, each
\* once, as merging F alone.
C8_MergeIdempotent ==
    mt.st = "done" =>
        /\ Points(mt.twice) = Points(mt.once)
        /\ Len(mt.twice) = Len(mt.once)

C8_Witness ==
    mt.st = "done" /\ Len(mt.F) = 3 /\ mt.tr = "match" /\ Len(mt.twice) = 3

====
